---- MODULE Spec2Model ----
(***************************************************************************)
(* Publish orchestration of the social media dashboard: the transport      *)
(* (fetchAPI), the retry wrapper (withRetry), the health monitor           *)
(* (checkBackendHealth), the two api services (the real one and the mock   *)
(* one that stands in for it) and the Posts page handlers that call them.  *)
(*                                                                         *)
(* The application is built with one of the two services behind            *)
(* '../services/api'; `variant` says which one a behaviour is about:       *)
(*   "retry"  withRetry on its own, its arguments drawn from small sets    *)
(*   "real"   the real service + the Posts page that uses it               *)
(*   "mock"   the mock service and its store                               *)
(*   "service" the real service on its own, health monitor included       *)
(*   "transport" one fetchAPI call and the response it gets               *)
(*   "media"  uploadMedia and publishDirect with a file                    *)
(*   "page"   the Posts page with its delete button, against the backend   *)
(***************************************************************************)
EXTENDS Integers, Naturals, Sequences, FiniteSets, TLC

VARIABLES
    variant,           \* which build the behaviour is about
    rt,                \* retry, service: the one withRetry call under study
    now,               \* Date.now(), a logical clock
    backendAvailable,  \* module variable of the real service: boolean | null
    posts,             \* Posts page: useState<Post[]>
    loading,           \* Posts page: useState(true)
    publishingId,      \* Posts page: useState<number | null>
    backendOnline,     \* Posts page: useState(true)
    tasks,             \* the async calls started so far, settled ones included
    serverPosts,       \* the backend's store behind the real service
    MOCK_POSTS         \* the mock service's store

vars == <<variant, rt, now, backendAvailable, posts, loading, publishingId,
          backendOnline, tasks, serverPosts, MOCK_POSTS>>

---------------------------------------------------------------------------
(* Bounds of the model *)

MaxRetries == 4        \* withRetry is tried with maxRetries in 0..MaxRetries
MaxDelayMs == 2        \* ... and with delayMs in 0..MaxDelayMs and the program's own
MaxTasks == 3          \* handler calls a behaviour of a page variant starts
MaxApiCalls == 1       \* ... of which calls of the service from outside the page
MaxMockCalls == 2      \* calls of the mock service a behaviour makes
MaxServiceCalls == 2   \* calls of the real service, besides one publishPost
MaxPageTasks == 2      \* clicks on the Posts page with delete
MaxMediaCalls == 2     \* calls of uploadMedia and publishDirect with a file

(* Program constants *)

DefaultMaxRetries == 3
DefaultDelayMs == 1000
PublishMaxRetries == 3
PublishDelayMs == 2000
DirectMaxRetries == 3
ImageMaxMB == 5
VideoMaxMB == 512
DirectDelayMs == 2000

---------------------------------------------------------------------------
(* Values *)

\* A `T | null` value is a set: {} for null, {v} for the value v.
Null == {}
Some(v) == {v}

\* an optional string field that is absent
Undefined == "undefined"

NoError == [name |-> "none", text |-> "", status |-> 0]
TypeErrorFailedToFetch == [name |-> "TypeError", text |-> "Failed to fetch", status |-> 0]
SyntaxErrorJson == [name |-> "SyntaxError", text |-> "Unexpected token", status |-> 0]
AllRetriesFailed == [name |-> "Error", text |-> "All retries failed", status |-> 0]

\* new Error(detail)
DetailError(detail) == [name |-> "Error", text |-> detail, status |-> 0]
\* new Error(`API Error: ${response.status}`)
ApiError(status) == [name |-> "Error", text |-> "API Error: ", status |-> status]

NoData == [success |-> FALSE, url |-> Undefined, error |-> Undefined, shape |-> "none"]
\* the body of a /posts/{id}/publish answer: {success, post, twitter_result: {url, error}}
PublishData(success, url, error) ==
    [success |-> success, url |-> url, error |-> error, shape |-> "publish"]

\* What one fetch() can come to: a rejection (DNS, refused connection), or a
\* response with a status, whose body parses as JSON or not, carries a
\* `detail` or not, and holds `data`.
FetchRejects == [kind |-> "reject", status |-> 0, parses |-> FALSE,
                 detail |-> Undefined, data |-> NoData]
Response(status, parses, detail, data) ==
    [kind |-> "response", status |-> status, parses |-> parses,
     detail |-> detail, data |-> data]

ResponseOk(resp) == resp.kind = "response" /\ resp.status >= 200 /\ resp.status <= 299

PublishResponses ==
    { FetchRejects,
      Response(200, TRUE, Undefined, PublishData(TRUE, "https://x/42", Undefined)),
      Response(200, TRUE, Undefined, PublishData(TRUE, Undefined, Undefined)),
      Response(200, TRUE, Undefined, PublishData(FALSE, Undefined, "rate limited")),
      Response(400, TRUE, "duplicate content", NoData),
      Response(500, FALSE, Undefined, NoData),
      Response(503, TRUE, Undefined, NoData) }

---------------------------------------------------------------------------
(* Transport *)

\* (mutant) no `if (!response.ok)`: the body of any response is returned
fetchAPINoStatusCheck(resp) ==
    IF resp.kind = "reject"
    THEN [threw |-> TRUE, error |-> TypeErrorFailedToFetch, value |-> NoData,
          status |-> resp.status]
    ELSE IF ~resp.parses
    THEN [threw |-> TRUE, error |-> SyntaxErrorJson, value |-> NoData,
          status |-> resp.status]
    ELSE [threw |-> FALSE, error |-> NoError, value |-> resp.data,
          status |-> resp.status]

\* What `await fetchAPI(...)` comes to, given what fetch() came to: it throws
\* `error` or returns `value`.  `status` notes the response status behind the
\* outcome (0 when fetch itself rejected); the Error object does not carry it.
fetchAPI(resp) ==
    IF resp.kind = "reject"
    THEN [threw |-> TRUE, error |-> TypeErrorFailedToFetch, value |-> NoData,
          status |-> resp.status]
    ELSE IF ~ResponseOk(resp)
    THEN LET errorData == IF resp.parses THEN resp.detail ELSE Undefined
         IN  [threw |-> TRUE,
              error |-> IF errorData # Undefined /\ errorData # ""
                        THEN DetailError(errorData)
                        ELSE ApiError(resp.status),
              value |-> NoData, status |-> resp.status]
    ELSE IF ~resp.parses
    THEN [threw |-> TRUE, error |-> SyntaxErrorJson, value |-> NoData,
          status |-> resp.status]
    ELSE [threw |-> FALSE, error |-> NoError, value |-> resp.data,
          status |-> resp.status]

---------------------------------------------------------------------------
(* Retry wrapper.  A call of withRetry is a record:                        *)
(*   pc        "idle" | "call" (fn is running) | "wait" (backoff timer)    *)
(*             | "resolved" | "rejected"                                   *)
(*   attempt, maxRetries, delayMs, lastError   the function's variables    *)
(*   value, error   what the call settled with                             *)
(*   calls, waits   a log: the invocations of fn, the backoff waits in     *)
(*             order                                                       *)
(*   outs      a log, kept when `log` is set: what each invocation of fn   *)
(*             came to, in order                                           *)

RetryIdle ==
    [pc |-> "idle", caller |-> "none", attempt |-> 0, maxRetries |-> 0, delayMs |-> 0,
     lastError |-> NoError, value |-> NoData, error |-> NoError,
     calls |-> 0, waits |-> <<>>, outs |-> <<>>, log |-> TRUE]

\* The locals of a settled call are gone: what is left of it is how it
\* settled.
Settled(r) ==
    [RetryIdle EXCEPT !.pc = r.pc, !.value = r.value, !.error = r.error]

\* (mutant) the loop runs once too often
LoopHeadOffByOne(r) ==
    IF r.attempt <= r.maxRetries
    THEN [r EXCEPT !.pc = "call", !.calls = @ + 1]
    ELSE [r EXCEPT !.pc = "rejected",
                   !.error = IF r.lastError # NoError THEN r.lastError
                             ELSE AllRetriesFailed]

\* The head of `for (let attempt = 0; attempt < maxRetries; attempt++)`:
\* run fn once more, or leave the loop and throw.
LoopHead(r) ==
    IF r.attempt < r.maxRetries
    THEN [r EXCEPT !.pc = "call", !.calls = @ + 1]
    ELSE [r EXCEPT !.pc = "rejected",
                   !.error = IF r.lastError # NoError THEN r.lastError
                             ELSE AllRetriesFailed]

withRetry(caller, maxRetries, delayMs) ==
    LoopHead([RetryIdle EXCEPT !.caller = caller, !.maxRetries = maxRetries,
                               !.delayMs = delayMs])

\* (mutant) no backoff: the same wait every time
WaitTimeFixed(delayMs, attempt) == delayMs

\* (mutant) linear backoff
WaitTimeLinear(delayMs, attempt) == delayMs * (attempt + 1)

\* delayMs * Math.pow(2, attempt)
WaitTime(delayMs, attempt) == delayMs * 2 ^ attempt

\* (mutant) the catch block sleeps after every failure, the last one included
ShouldWaitAlways(r, error) == TRUE

\* Whether the catch block sleeps before the next round.
ShouldWait(r, error) == r.attempt < r.maxRetries - 1

\* `return await fn()` returned.
FnReturns(r, value) == [r EXCEPT !.pc = "resolved", !.value = value]

\* `await fn()` threw: the catch block, then attempt++ unless it sleeps first.
FnThrows(r, error) ==
    LET c == [r EXCEPT !.lastError = error]
    IN  IF ShouldWait(r, error)
        THEN [c EXCEPT !.pc = "wait",
                       !.waits = Append(@, WaitTime(r.delayMs, r.attempt))]
        ELSE LoopHead([c EXCEPT !.attempt = @ + 1])

\* (mutant) the promise of the backoff wait is never resolved
TimerFiresLost(r) == r

\* The backoff timer fired: attempt++ and the loop head.
TimerFires(r) == LoopHead([r EXCEPT !.attempt = @ + 1])

\* fn settled with an outcome of fetchAPI.
FnSettles(r, out) ==
    LET logged == IF r.log THEN [r EXCEPT !.outs = Append(@, out)] ELSE r
    IN  IF out.threw THEN FnThrows(logged, out.error) ELSE FnReturns(logged, out.value)

RetrySettled(r) == r.pc \in {"resolved", "rejected"}

---------------------------------------------------------------------------
(* The retry variant: one call of withRetry, arguments drawn. *)

DelayChoices == (0..MaxDelayMs) \cup {DefaultDelayMs, PublishDelayMs}

PageIdle ==
    /\ now = 0
    /\ backendAvailable = Null
    /\ posts = <<>>
    /\ loading = TRUE
    /\ publishingId = Null
    /\ backendOnline = TRUE
    /\ tasks = <<>>
    /\ serverPosts = <<>>
    /\ MOCK_POSTS = <<>>

pageVars == <<now, backendAvailable, posts, loading, publishingId, backendOnline,
              tasks, serverPosts, MOCK_POSTS>>

InitRetry ==
    /\ variant = "retry"
    /\ rt = RetryIdle
    /\ PageIdle

\* withRetry(fn, maxRetries, delayMs), and withRetry(fn) with the defaults
CallWithRetry ==
    /\ variant = "retry" /\ rt.pc = "idle"
    /\ \E m \in 0..MaxRetries, d \in DelayChoices :
          rt' = withRetry("withRetry", m, d)
    /\ UNCHANGED <<variant, pageVars>>

CallWithRetryDefaults ==
    /\ variant = "retry" /\ rt.pc = "idle"
    /\ rt' = withRetry("defaults", DefaultMaxRetries, DefaultDelayMs)
    /\ UNCHANGED <<variant, pageVars>>

\* api.publishPost(id) of the real service
publishPost == withRetry("publishPost", PublishMaxRetries, PublishDelayMs)

\* api.publishDirect(content, file)
publishDirect == withRetry("publishDirect", DirectMaxRetries, DirectDelayMs)

CallPublishPost ==
    /\ variant = "retry" /\ rt.pc = "idle"
    /\ rt' = publishPost
    /\ UNCHANGED <<variant, pageVars>>

CallPublishDirect ==
    /\ variant = "retry" /\ rt.pc = "idle"
    /\ rt' = publishDirect
    /\ UNCHANGED <<variant, pageVars>>

RetryFnSettles ==
    /\ variant \in {"retry", "service"} /\ rt.pc = "call"
    /\ \E resp \in PublishResponses : rt' = FnSettles(rt, fetchAPI(resp))
    /\ UNCHANGED <<variant, pageVars>>

RetryTimerFires ==
    /\ variant \in {"retry", "service"} /\ rt.pc = "wait"
    /\ rt' = TimerFires(rt)
    /\ UNCHANGED <<variant, pageVars>>

NextRetry ==
    \/ CallWithRetry
    \/ CallWithRetryDefaults
    \/ CallPublishPost
    \/ CallPublishDirect
    \/ RetryFnSettles
    \/ RetryTimerFires

SpecRetry == InitRetry /\ [][NextRetry]_vars

\* The same, when every fetch that was issued settles and every timer that
\* was set fires.
SpecRetryFair ==
    SpecRetry /\ WF_vars(RetryFnSettles) /\ WF_vars(RetryTimerFires)

---------------------------------------------------------------------------
(* Posts *)

\* new Date(ms).toISOString()
toISOString(ms) == ToString(ms)

Post(id, content, status, posted, scheduled, err) ==
    [id |-> id, content |-> content, status |-> status, posted_time |-> posted,
     scheduled_time |-> scheduled, error_message |-> err,
     created_at |-> toISOString(0), tweet_url |-> Undefined]

\* The four posts of the fixture: one per status.
InitialPosts ==
    << Post(1, "Just launched our new product line!", "posted",
            toISOString(0), Undefined, Undefined),
       Post(2, "Behind the scenes at the office today.", "draft",
            Undefined, Undefined, Undefined),
       Post(3, "New video tutorial is live on YouTube!", "failed",
            Undefined, Undefined,
            "Video upload failed: Invalid format or connection timeout."),
       Post(4, "Upcoming webinar regarding Q4 trends.", "scheduled",
            Undefined, toISOString(0), Undefined) >>

\* an id no post has
UnknownId == 9

PostIds == {InitialPosts[i].id : i \in DOMAIN InitialPosts}

Ids(list) == {list[i].id : i \in DOMAIN list}

\* list.find(p => p.id === id) as an index: the first match, 0 when there is none
FindIndex(list, id) ==
    IF id \in Ids(list)
    THEN CHOOSE i \in DOMAIN list :
            list[i].id = id /\ \A j \in 1..(i - 1) : list[j].id # id
    ELSE 0

---------------------------------------------------------------------------
(* The backend behind the real service.  It is not part of the front end:   *)
(* it answers a publish request with success, a structured failure or not   *)
(* at all, and keeps the post it answered about in step with its answer.    *)

\* the answers to POST /posts/{id}/publish the pages are tried with
PageResponses ==
    { FetchRejects,
      Response(200, TRUE, Undefined, PublishData(TRUE, "https://x/42", Undefined)),
      Response(200, TRUE, Undefined, PublishData(FALSE, Undefined, "rate limited")),
      Response(400, TRUE, "duplicate content", NoData) }

ServerPublishResponses(store, id) ==
    IF id \in Ids(store)
    THEN PageResponses
    ELSE { FetchRejects, Response(404, TRUE, "Post not found", NoData) }

ServerPublish(store, id, resp, time) ==
    IF ~ResponseOk(resp) \/ id \notin Ids(store) THEN store
    ELSE [i \in DOMAIN store |->
            IF store[i].id # id THEN store[i]
            ELSE IF resp.data.success
            THEN [store[i] EXCEPT !.status = "posted",
                                  !.posted_time = toISOString(time),
                                  !.error_message = Undefined,
                                  !.tweet_url = resp.data.url]
            ELSE [store[i] EXCEPT !.status = "failed",
                                  !.error_message = resp.data.error]]

---------------------------------------------------------------------------
(* The Posts page over the real service *)

\* post.status of the first post of `list` with this id; "none" without one
StatusOf(list, id) ==
    IF FindIndex(list, id) = 0 THEN "none" ELSE list[FindIndex(list, id)].status

\* A call in flight or settled.  `was` and `gate` note what held when it was
\* made: the status of the post it is about, and isBackendAvailable().
\* The pages keep no log of what the attempts of a publish came to.
Task(kind, via, id, pc, r, was, gate) ==
    [kind |-> kind, via |-> via, id |-> id, pc |-> pc, r |-> [r EXCEPT !.log = FALSE],
     was |-> was, gate |-> gate]

\* Init: the page has just mounted; useEffect has called fetchPosts, which
\* is awaiting checkBackendHealth().  The backend holds the posts of the
\* fixture, one per status.
InitReal ==
    /\ variant = "real"
    /\ rt = RetryIdle
    /\ now = 1
    /\ backendAvailable = Null
    /\ posts = <<>>
    /\ loading = TRUE
    /\ publishingId = Null
    /\ backendOnline = TRUE
    /\ tasks = << Task("fetchPosts", "page", 0, "health", RetryIdle, "none", Null) >>
    /\ serverPosts = InitialPosts
    /\ MOCK_POSTS = <<>>

\* how many handler calls a behaviour starts, the fetchPosts of the mount
\* included
TaskCap == IF variant = "page" THEN MaxPageTasks + 1 ELSE MaxTasks + 1

\* The publish button of post `id` is on screen and enabled.
PublishButtonEnabled(id) ==
    /\ ~loading
    /\ \E i \in DOMAIN posts :
          posts[i].id = id /\ posts[i].status \in {"draft", "failed"}
    /\ publishingId # Some(id)
    /\ backendOnline

\* (mutant) the map forgets to compare ids
MarkPostedAll(list, id, time, url) ==
    [i \in DOMAIN list |->
        [list[i] EXCEPT !.status = "posted",
                        !.posted_time = toISOString(time),
                        !.tweet_url = url]]

\* setPosts(prev => prev.map(p => p.id === id ? {...p, status: 'posted', ...} : p))
MarkPosted(list, id, time, url) ==
    [i \in DOMAIN list |->
        IF list[i].id = id
        THEN [list[i] EXCEPT !.status = "posted",
                             !.posted_time = toISOString(time),
                             !.tweet_url = url]
        ELSE list[i]]

\* handlePublish(id) up to its first await: confirm, setPublishingId(id),
\* api.publishPost(id) runs withRetry up to the first fetch.
ClickPublish(id) ==
    /\ variant \in {"real", "page"}
    /\ Len(tasks) < TaskCap
    /\ PublishButtonEnabled(id)
    /\ publishingId' = Some(id)
    /\ tasks' = Append(tasks, Task("publish", "page", id, "publishPost", publishPost,
                                  StatusOf(posts, id), backendAvailable))
    /\ UNCHANGED <<variant, rt, now, backendAvailable, posts, loading, backendOnline,
                   serverPosts, MOCK_POSTS>>

\* api.publishPost(id) called by a caller other than the Posts page
ApiPublishPost(id) ==
    /\ variant = "real"
    /\ Len(tasks) < MaxTasks + 1
    /\ Cardinality({i \in DOMAIN tasks : tasks[i].via = "api"}) < MaxApiCalls
    /\ tasks' = Append(tasks, Task("publish", "api", id, "publishPost", publishPost,
                                  StatusOf(serverPosts, id), backendAvailable))
    /\ UNCHANGED <<variant, rt, now, backendAvailable, posts, loading, publishingId,
                   backendOnline, serverPosts, MOCK_POSTS>>

\* fetchPosts() up to its first await: setLoading(true), setError(null),
\* checkBackendHealth() issues GET /health.
StartFetchPosts(i, r) ==
    /\ loading' = TRUE
    /\ tasks' = [tasks EXCEPT ![i].pc = "health", ![i].r = r]
    /\ UNCHANGED <<posts, publishingId>>

\* (mutant) handlePublish takes every result for a success
AfterPublishPostAnyResult(i, r) ==
    IF tasks[i].via = "api"
    THEN /\ tasks' = [tasks EXCEPT ![i].pc = "done", ![i].r = Settled(r)]
         /\ UNCHANGED <<posts, loading, publishingId, now>>
    ELSE IF r.pc = "resolved"
    THEN /\ posts' = MarkPosted(posts, tasks[i].id, now, r.value.url)
         /\ publishingId' = Null
         /\ tasks' = [tasks EXCEPT ![i].pc = "done", ![i].r = Settled(r)]
         /\ now' = now + 1
         /\ UNCHANGED loading
    ELSE StartFetchPosts(i, Settled(r)) /\ UNCHANGED now

\* What handlePublish does once api.publishPost has settled as r.
AfterPublishPost(i, r) ==
    IF tasks[i].via = "api"
    THEN /\ tasks' = [tasks EXCEPT ![i].pc = "done", ![i].r = Settled(r)]
         /\ UNCHANGED <<posts, loading, publishingId, now>>
    ELSE IF r.pc = "resolved" /\ r.value.success
    THEN /\ posts' = MarkPosted(posts, tasks[i].id, now, r.value.url)
         /\ publishingId' = Null
         /\ tasks' = [tasks EXCEPT ![i].pc = "done", ![i].r = Settled(r)]
         /\ now' = now + 1
         /\ UNCHANGED loading
    ELSE StartFetchPosts(i, Settled(r)) /\ UNCHANGED now

\* One round of withRetry inside api.publishPost moved it to r.
PublishStep(i, r) ==
    IF RetrySettled(r)
    THEN AfterPublishPost(i, r)
    ELSE /\ tasks' = [tasks EXCEPT ![i].r = r]
         /\ UNCHANGED <<posts, loading, publishingId, now>>

\* The fetch of POST /posts/{id}/publish settles.
PublishFetchSettles(i) ==
    /\ variant \in {"real", "page"}
    /\ i \in DOMAIN tasks
    /\ tasks[i].pc = "publishPost" /\ tasks[i].r.pc = "call"
    /\ \E resp \in ServerPublishResponses(serverPosts, tasks[i].id) :
          /\ serverPosts' = ServerPublish(serverPosts, tasks[i].id, resp, now)
          /\ PublishStep(i, FnSettles(tasks[i].r, fetchAPI(resp)))
    /\ UNCHANGED <<variant, rt, backendAvailable, backendOnline, MOCK_POSTS>>

\* The backoff timer of a publish fires: the next fetch is issued.
PublishTimerFires(i) ==
    /\ variant \in {"real", "page"}
    /\ i \in DOMAIN tasks
    /\ tasks[i].pc = "publishPost" /\ tasks[i].r.pc = "wait"
    /\ PublishStep(i, TimerFires(tasks[i].r))
    /\ UNCHANGED <<variant, rt, backendAvailable, backendOnline, serverPosts,
                   MOCK_POSTS>>

\* (mutant) handlePublish without its finally block
EndFetchPostsNoFinally(i) ==
    /\ loading' = FALSE
    /\ publishingId' = publishingId
    /\ tasks' = [tasks EXCEPT ![i].pc = "done"]

\* The end of fetchPosts (finally: setLoading(false)) and, inside
\* handlePublish, the alert and finally: setPublishingId(null).
EndFetchPosts(i) ==
    /\ loading' = FALSE
    /\ publishingId' = IF tasks[i].kind = "publish" THEN Null ELSE publishingId
    /\ tasks' = [tasks EXCEPT ![i].pc = "done"]

\* (mutant) any response counts as healthy
checkBackendHealthAnyResponse(rejected, ok) == ~rejected

\* checkBackendHealth(): what GET /health came to.  `ok` is response.ok;
\* `rejected` is a network failure or the 3 s timeout.
checkBackendHealth(rejected, ok) == IF rejected THEN FALSE ELSE ok

\* (mutant) the catch branch returns false without storing it
backendAvailableAfterNoCatch(rejected, ok) ==
    IF rejected THEN backendAvailable ELSE Some(ok)

\* what checkBackendHealth() leaves in the module's backendAvailable
backendAvailableAfter(rejected, ok) == Some(IF rejected THEN FALSE ELSE ok)

\* GET /health settles inside fetchPosts.
HealthSettles(i) ==
    /\ variant \in {"real", "page"}
    /\ i \in DOMAIN tasks
    /\ tasks[i].pc = "health"
    /\ \E rejected \in BOOLEAN, ok \in BOOLEAN :
          LET isOnline == checkBackendHealth(rejected, ok)
          IN  /\ backendAvailable' = backendAvailableAfter(rejected, ok)
              /\ backendOnline' = isOnline
              /\ IF isOnline
                 THEN /\ tasks' = [tasks EXCEPT ![i].pc = "getPosts"]
                      /\ UNCHANGED <<loading, publishingId>>
                 ELSE EndFetchPosts(i)
    /\ UNCHANGED <<variant, rt, now, posts, serverPosts, MOCK_POSTS>>

\* GET /posts settles inside fetchPosts: setPosts(data), or setError.
GetPostsSettles(i) ==
    /\ variant = "real"
    /\ i \in DOMAIN tasks
    /\ tasks[i].pc = "getPosts"
    /\ \E failed \in BOOLEAN :
          posts' = IF failed THEN posts ELSE serverPosts
    /\ EndFetchPosts(i)
    /\ UNCHANGED <<variant, rt, now, backendAvailable, backendOnline, serverPosts,
                   MOCK_POSTS>>

\* The Refresh button: onClick={fetchPosts}, disabled={loading}
ClickRefresh ==
    /\ variant \in {"real", "page"}
    /\ Len(tasks) < TaskCap
    /\ ~loading
    /\ loading' = TRUE
    /\ tasks' = Append(tasks, Task("fetchPosts", "page", 0, "health", RetryIdle, "none", Null))
    /\ UNCHANGED <<variant, rt, now, backendAvailable, posts, publishingId,
                   backendOnline, serverPosts, MOCK_POSTS>>

NextReal ==
    \/ \E id \in PostIds : ClickPublish(id)
    \/ \E id \in PostIds \cup {UnknownId} : ApiPublishPost(id)
    \/ \E i \in 1..(MaxTasks + 1) : PublishFetchSettles(i)
    \/ \E i \in 1..(MaxTasks + 1) : PublishTimerFires(i)
    \/ \E i \in 1..(MaxTasks + 1) : HealthSettles(i)
    \/ \E i \in 1..(MaxTasks + 1) : GetPostsSettles(i)
    \/ ClickRefresh

Spec == InitReal /\ [][NextReal]_vars

---------------------------------------------------------------------------
(* The Posts page over the real service, with its delete button.  Here the  *)
(* answer to GET /posts is a message of its own: the backend answers with    *)
(* the list it holds then, and the page gets the answer later.              *)

InitPage ==
    /\ variant = "page"
    /\ rt = RetryIdle
    /\ now = 1
    /\ backendAvailable = Null
    /\ posts = <<>>
    /\ loading = TRUE
    /\ publishingId = Null
    /\ backendOnline = TRUE
    /\ tasks = << Task("fetchPosts", "page", 0, "health", RetryIdle, "none", Null) >>
    /\ serverPosts = InitialPosts
    /\ MOCK_POSTS = <<>>

\* the answers to DELETE /posts/{id}
ServerDeleteResponses(store, id) ==
    IF id \in Ids(store)
    THEN { FetchRejects, Response(200, TRUE, Undefined, NoData) }
    ELSE { FetchRejects, Response(404, TRUE, "Post not found", NoData) }

\* (mutant) the filter keeps the post instead of dropping it
WithoutIdInverted(list, id) ==
    SelectSeq(list, LAMBDA p : p.id = id)

\* list.filter(p => p.id !== id)
WithoutId(list, id) ==
    SelectSeq(list, LAMBDA p : p.id # id)

ServerDelete(store, id, resp) ==
    IF ResponseOk(resp) THEN WithoutId(store, id) ELSE store

\* The delete button of post `id` is on screen and enabled.
DeleteButtonEnabled(id) ==
    /\ ~loading
    /\ id \in Ids(posts)
    /\ backendOnline

\* handleDelete(id) up to its first await: confirm, api.deletePost(id)
\* issues DELETE /posts/{id}
ClickDelete(id) ==
    /\ variant = "page"
    /\ Len(tasks) < TaskCap
    /\ DeleteButtonEnabled(id)
    /\ tasks' = Append(tasks, Task("delete", "page", id, "deletePost", RetryIdle,
                                   StatusOf(posts, id), Null))
    /\ UNCHANGED <<variant, rt, now, backendAvailable, posts, loading, publishingId,
                   backendOnline, serverPosts, MOCK_POSTS>>

\* DELETE /posts/{id} settles: setPosts(prev => prev.filter(...)), or the alert
DeleteFetchSettles(i) ==
    /\ variant = "page"
    /\ i \in DOMAIN tasks
    /\ tasks[i].pc = "deletePost"
    /\ \E resp \in ServerDeleteResponses(serverPosts, tasks[i].id) :
          LET out == fetchAPI(resp)
          IN  /\ serverPosts' = ServerDelete(serverPosts, tasks[i].id, resp)
              /\ posts' = IF out.threw THEN posts ELSE WithoutId(posts, tasks[i].id)
              /\ tasks' = [tasks EXCEPT
                             ![i].pc = "done",
                             ![i].r = [RetryIdle EXCEPT
                                         !.pc = IF out.threw THEN "rejected"
                                                ELSE "resolved",
                                         !.error = out.error]]
    /\ UNCHANGED <<variant, rt, now, backendAvailable, loading, publishingId,
                   backendOnline, MOCK_POSTS>>

\* The backend answers GET /posts with the list it holds; the task keeps the
\* answer on its way in `was`.
ServerAnswersGetPosts(i) ==
    /\ variant = "page"
    /\ i \in DOMAIN tasks
    /\ tasks[i].pc = "getPosts"
    /\ tasks' = [tasks EXCEPT ![i].pc = "getPostsReply", ![i].was = serverPosts]
    /\ UNCHANGED <<variant, rt, now, backendAvailable, posts, loading, publishingId,
                   backendOnline, serverPosts, MOCK_POSTS>>

\* GET /posts fails: setError
GetPostsFails(i) ==
    /\ variant = "page"
    /\ i \in DOMAIN tasks
    /\ tasks[i].pc = "getPosts"
    /\ EndFetchPosts(i)
    /\ UNCHANGED <<variant, rt, now, backendAvailable, posts, backendOnline,
                   serverPosts, MOCK_POSTS>>

\* The answer to GET /posts arrives: setPosts(data), and the end of
\* fetchPosts as in EndFetchPosts; the answer is dropped from the task.
GetPostsReplyArrives(i) ==
    /\ variant = "page"
    /\ i \in DOMAIN tasks
    /\ tasks[i].pc = "getPostsReply"
    /\ posts' = tasks[i].was
    /\ loading' = FALSE
    /\ publishingId' = IF tasks[i].kind = "publish" THEN Null ELSE publishingId
    /\ tasks' = [tasks EXCEPT ![i].pc = "done", ![i].was = "none"]
    /\ UNCHANGED <<variant, rt, now, backendAvailable, backendOnline, serverPosts,
                   MOCK_POSTS>>

NextPage ==
    \/ \E id \in PostIds : ClickPublish(id)
    \/ \E id \in PostIds : ClickDelete(id)
    \/ \E i \in 1..(MaxPageTasks + 1) : PublishFetchSettles(i)
    \/ \E i \in 1..(MaxPageTasks + 1) : PublishTimerFires(i)
    \/ \E i \in 1..(MaxPageTasks + 1) : HealthSettles(i)
    \/ \E i \in 1..(MaxPageTasks + 1) : ServerAnswersGetPosts(i)
    \/ \E i \in 1..(MaxPageTasks + 1) : GetPostsFails(i)
    \/ \E i \in 1..(MaxPageTasks + 1) : GetPostsReplyArrives(i)
    \/ \E i \in 1..(MaxPageTasks + 1) : DeleteFetchSettles(i)
    \/ ClickRefresh

SpecPage == InitPage /\ [][NextPage]_vars

---------------------------------------------------------------------------
(* The mock service: the store MOCK_POSTS and the calls of api.createPost,  *)
(* api.deletePost and api.publishPost on it.  Each call first awaits a      *)
(* delay; what it does to the store happens when the delay is over.         *)

SimulatedFailure == [name |-> "Error", text |-> "Simulated failure", status |-> 0]

\* Math.floor(Math.random() * 10000), drawn from a few values: the id of a
\* post of the fixture, and ids that are new.
RandomIds == {1, 5, 6}

\* what createPost is called with: postData.content and
\* postData.scheduled_time, each of them absent, empty or set
Contents == {"hello", "", Undefined}
ScheduledTimes == {Undefined, "", toISOString(7)}

\* (mutant) every new post is a draft
MockNewPostAlwaysDraft(id, content, scheduled, time) ==
    [id |-> id, content |-> IF content = Undefined THEN "" ELSE content,
     status |-> "draft",
     posted_time |-> Undefined, scheduled_time |-> scheduled,
     error_message |-> Undefined, created_at |-> toISOString(time),
     tweet_url |-> Undefined]

InitMock ==
    /\ variant = "mock"
    /\ rt = RetryIdle
    /\ now = 1
    /\ backendAvailable = Null
    /\ posts = <<>>
    /\ loading = TRUE
    /\ publishingId = Null
    /\ backendOnline = TRUE
    /\ tasks = <<>>
    /\ serverPosts = <<>>
    /\ MOCK_POSTS = InitialPosts

mockFrame == <<variant, rt, backendAvailable, posts, loading, publishingId,
               backendOnline, serverPosts>>

\* api.publishPost(id) is called: await delay(1500)
MockCallPublishPost(id) ==
    /\ variant = "mock"
    /\ Len(tasks) < MaxMockCalls
    /\ tasks' = Append(tasks, Task("publish", "api", id, "delay", RetryIdle,
                                   StatusOf(MOCK_POSTS, id), Null))
    /\ UNCHANGED <<mockFrame, now, MOCK_POSTS>>

\* The body of the mock publishPost after the delay; `random` is whether
\* Math.random() > 0.9.
MockPublishPost(store, id, random, time) ==
    LET k == FindIndex(store, id)
    IN  IF k = 0 THEN store
        ELSE IF random
        THEN [store EXCEPT ![k].status = "failed",
                           ![k].error_message = "Simulated timeout error from provider."]
        ELSE [store EXCEPT ![k].status = "posted",
                           ![k].posted_time = toISOString(time),
                           ![k].error_message = Undefined]

\* How that call settles: it throws only on the simulated failure.
MockPublishPostResult(store, id, random) ==
    IF FindIndex(store, id) # 0 /\ random
    THEN [RetryIdle EXCEPT !.pc = "rejected", !.error = SimulatedFailure]
    ELSE [RetryIdle EXCEPT !.pc = "resolved"]

MockPublishPostRuns(i) ==
    /\ variant = "mock"
    /\ i \in DOMAIN tasks
    /\ tasks[i].kind = "publish" /\ tasks[i].pc = "delay"
    /\ \E random \in BOOLEAN :
          /\ MOCK_POSTS' = MockPublishPost(MOCK_POSTS, tasks[i].id, random, now)
          /\ tasks' = [tasks EXCEPT
                         ![i].pc = "done",
                         ![i].r = MockPublishPostResult(MOCK_POSTS, tasks[i].id, random)]
    /\ now' = now + 1
    /\ UNCHANGED mockFrame

\* api.deletePost(id) is called: await delay(400)
MockCallDeletePost(id) ==
    /\ variant = "mock"
    /\ Len(tasks) < MaxMockCalls
    /\ tasks' = Append(tasks, Task("delete", "api", id, "delay", RetryIdle,
                                   StatusOf(MOCK_POSTS, id), Null))
    /\ UNCHANGED <<mockFrame, now, MOCK_POSTS>>

\* MOCK_POSTS.splice(index, 1) at the first post with this id, if any
MockDeletePost(store, id) ==
    LET k == FindIndex(store, id)
    IN  IF k = 0 THEN store
        ELSE SubSeq(store, 1, k - 1) \o SubSeq(store, k + 1, Len(store))

MockDeletePostRuns(i) ==
    /\ variant = "mock"
    /\ i \in DOMAIN tasks
    /\ tasks[i].kind = "delete" /\ tasks[i].pc = "delay"
    /\ MOCK_POSTS' = MockDeletePost(MOCK_POSTS, tasks[i].id)
    /\ tasks' = [tasks EXCEPT ![i].pc = "done",
                              ![i].r = [RetryIdle EXCEPT !.pc = "resolved"]]
    /\ UNCHANGED <<mockFrame, now>>

\* the post createPost builds from postData
MockNewPost(id, content, scheduled, time) ==
    [id |-> id, content |-> IF content = Undefined THEN "" ELSE content,
     status |-> IF scheduled \notin {Undefined, ""} THEN "scheduled" ELSE "draft",
     posted_time |-> Undefined, scheduled_time |-> scheduled,
     error_message |-> Undefined, created_at |-> toISOString(time),
     tweet_url |-> Undefined]

\* api.createPost(postData) is called: await delay(800).  The task's `was`
\* holds the content and its `gate` the scheduled time it was called with.
MockCallCreatePost(content, scheduled) ==
    /\ variant = "mock"
    /\ Len(tasks) < MaxMockCalls
    /\ tasks' = Append(tasks, Task("create", "api", 0, "delay", RetryIdle,
                                   content, Some(scheduled)))
    /\ UNCHANGED <<mockFrame, now, MOCK_POSTS>>

\* MOCK_POSTS.unshift(newPost)
MockCreatePostRuns(i) ==
    /\ variant = "mock"
    /\ i \in DOMAIN tasks
    /\ tasks[i].kind = "create" /\ tasks[i].pc = "delay"
    /\ \E id \in RandomIds, scheduled \in tasks[i].gate :
          /\ MOCK_POSTS' =
                <<MockNewPost(id, tasks[i].was, scheduled, now)>> \o MOCK_POSTS
          /\ tasks' = [tasks EXCEPT ![i].pc = "done", ![i].id = id,
                                    ![i].r = [RetryIdle EXCEPT !.pc = "resolved"]]
    /\ now' = now + 1
    /\ UNCHANGED mockFrame

NextMock ==
    \/ \E id \in PostIds \cup {UnknownId} : MockCallPublishPost(id)
    \/ \E i \in 1..MaxMockCalls : MockPublishPostRuns(i)
    \/ \E id \in PostIds \cup {UnknownId} : MockCallDeletePost(id)
    \/ \E i \in 1..MaxMockCalls : MockDeletePostRuns(i)
    \/ \E content \in Contents, scheduled \in ScheduledTimes :
          MockCallCreatePost(content, scheduled)
    \/ \E i \in 1..MaxMockCalls : MockCreatePostRuns(i)

SpecMock == InitMock /\ [][NextMock]_vars

---------------------------------------------------------------------------
(* The real service on its own: checkBackendHealth() and the module's       *)
(* backendAvailable, next to the other calls of the module: one publishPost *)
(* through withRetry (in rt) and createPost, deletePost and getPosts, which  *)
(* are one fetchAPI each.  A settled checkBackendHealth task notes what      *)
(* GET /health came to in `was` (kind) and `id` (status), and the boolean it *)
(* returned in `gate`.                                                       *)

\* fetch() rejected because AbortSignal.timeout(3000) fired
FetchTimesOut == [FetchRejects EXCEPT !.kind = "timeout"]

HealthResponses ==
    { FetchRejects, FetchTimesOut,
      Response(200, TRUE, Undefined, NoData), Response(204, FALSE, Undefined, NoData),
      Response(404, TRUE, Undefined, NoData), Response(503, FALSE, Undefined, NoData) }

\* answers to POST /posts, DELETE /posts/{id}, GET /posts
ServiceResponses ==
    { FetchRejects, Response(200, TRUE, Undefined, NoData),
      Response(404, TRUE, "Post not found", NoData) }

ServiceCalls == {"createPost", "deletePost", "getPosts"}

InitService ==
    /\ variant = "service"
    /\ rt = RetryIdle
    /\ PageIdle

serviceFrame == <<variant, now, posts, loading, publishingId, backendOnline,
                  serverPosts, MOCK_POSTS>>

\* checkBackendHealth() is called: fetch of GET /health is issued
CallCheckBackendHealth ==
    /\ variant = "service"
    /\ Len(tasks) < MaxServiceCalls
    /\ tasks' = Append(tasks, Task("checkBackendHealth", "api", 0, "health", RetryIdle,
                                   "none", Null))
    /\ UNCHANGED <<serviceFrame, rt, backendAvailable>>

\* GET /health settles: the rest of checkBackendHealth()
HealthFetchSettles(i) ==
    /\ variant = "service"
    /\ i \in DOMAIN tasks
    /\ tasks[i].kind = "checkBackendHealth" /\ tasks[i].pc = "health"
    /\ \E resp \in HealthResponses :
          LET rejected == resp.kind # "response"
              ok == ResponseOk(resp)
          IN  /\ backendAvailable' = backendAvailableAfter(rejected, ok)
              /\ tasks' = [tasks EXCEPT
                             ![i].pc = "done", ![i].id = resp.status,
                             ![i].was = resp.kind,
                             ![i].r = [RetryIdle EXCEPT !.pc = "resolved"],
                             ![i].gate = Some(checkBackendHealth(rejected, ok))]
    /\ UNCHANGED <<serviceFrame, rt>>

\* api.createPost, api.deletePost or api.getPosts is called: one fetchAPI
CallService(kind) ==
    /\ variant = "service"
    /\ Len(tasks) < MaxServiceCalls
    /\ tasks' = Append(tasks, Task(kind, "api", 0, "fetchAPI", RetryIdle, "none", Null))
    /\ UNCHANGED <<serviceFrame, rt, backendAvailable>>

\* ... and its fetchAPI settles
ServiceFetchSettles(i) ==
    /\ variant = "service"
    /\ i \in DOMAIN tasks
    /\ tasks[i].pc = "fetchAPI"
    /\ \E resp \in ServiceResponses :
          LET out == fetchAPI(resp)
          IN  tasks' = [tasks EXCEPT
                          ![i].pc = "done",
                          ![i].r = [RetryIdle EXCEPT
                                      !.pc = IF out.threw THEN "rejected" ELSE "resolved",
                                      !.error = out.error]]
    /\ UNCHANGED <<serviceFrame, rt, backendAvailable>>

\* api.publishPost(id) is called; what its attempts came to is not kept
ServiceCallPublishPost ==
    /\ variant = "service" /\ rt.pc = "idle"
    /\ rt' = [publishPost EXCEPT !.log = FALSE]
    /\ UNCHANGED <<variant, pageVars>>

NextService ==
    \/ CallCheckBackendHealth
    \/ \E i \in 1..MaxServiceCalls : HealthFetchSettles(i)
    \/ \E kind \in ServiceCalls : CallService(kind)
    \/ \E i \in 1..MaxServiceCalls : ServiceFetchSettles(i)
    \/ ServiceCallPublishPost
    \/ RetryFnSettles
    \/ RetryTimerFires

SpecService == InitService /\ [][NextService]_vars

---------------------------------------------------------------------------
(* The transport on its own: one fetchAPI call, for each thing its fetch()  *)
(* can come to.  The task keeps the response in `was`.                      *)

TransportStatuses == {200, 201, 204, 301, 400, 401, 404, 422, 500, 503}

\* the `detail` of a body: absent, empty, or a message
TransportDetails == {Undefined, "", "Post not found"}

TransportResponses ==
    {FetchRejects} \cup
    { Response(status, parses, detail, NoData) :
        status \in TransportStatuses, parses \in BOOLEAN, detail \in TransportDetails }

InitTransport ==
    /\ variant = "transport"
    /\ rt = RetryIdle
    /\ now = 0
    /\ backendAvailable = Null
    /\ posts = <<>>
    /\ loading = TRUE
    /\ publishingId = Null
    /\ backendOnline = TRUE
    /\ \E resp \in TransportResponses :
          tasks = << Task("fetchAPI", "api", 0, "fetchAPI", RetryIdle, resp, Null) >>
    /\ serverPosts = <<>>
    /\ MOCK_POSTS = <<>>

\* fetch() settles and fetchAPI runs to its end
TransportFetchSettles ==
    /\ variant = "transport"
    /\ tasks[1].pc = "fetchAPI"
    /\ LET out == fetchAPI(tasks[1].was)
       IN  tasks' = [tasks EXCEPT
                       ![1].pc = "done",
                       ![1].r = [RetryIdle EXCEPT
                                   !.pc = IF out.threw THEN "rejected" ELSE "resolved",
                                   !.error = out.error]]
    /\ UNCHANGED <<variant, rt, now, backendAvailable, posts, loading, publishingId,
                   backendOnline, serverPosts, MOCK_POSTS>>

NextTransport == TransportFetchSettles

SpecTransport == InitTransport /\ [][NextTransport]_vars

---------------------------------------------------------------------------
(* Media: api.uploadMedia(file) and api.publishDirect(content, file).  A    *)
(* file is its declared content type, as type and subtype, and its size in  *)
(* MB.  The front end hands the file to the backend as it is; the backend,   *)
(* which is not part of the front end, checks it and answers.                *)

File(type, subtype, sizeMB) == [type |-> type, subtype |-> subtype, sizeMB |-> sizeMB]

MediaFiles ==
    { File("video", "mp4", 600), File("video", "mp4", 100), File("text", "plain", 10),
      File("image", "png", 2), File("image", "png", 6) }

\* the check of a file: "" when it passes, the error when not
StageError(file) ==
    IF file.type \notin {"image", "video"} THEN "UnsupportedType"
    ELSE IF file.sizeMB > (IF file.type = "image" THEN ImageMaxMB ELSE VideoMaxMB)
    THEN "TooLarge"
    ELSE ""

\* the answers to POST /upload and POST /publish-direct with this file
ServerUpload(file) ==
    IF StageError(file) # ""
    THEN Response(400, TRUE, StageError(file), NoData)
    ELSE Response(200, TRUE, Undefined, PublishData(TRUE, Undefined, Undefined))

MediaResponses(file) == {FetchRejects, ServerUpload(file)}

InitMedia ==
    /\ variant = "media"
    /\ rt = RetryIdle
    /\ PageIdle

mediaFrame == <<variant, rt, now, backendAvailable, posts, loading, publishingId,
                backendOnline, serverPosts, MOCK_POSTS>>

\* api.uploadMedia(file): FormData, then fetchAPI('/upload') issues its fetch
CallUploadMedia(file) ==
    /\ variant = "media"
    /\ Len(tasks) < MaxMediaCalls
    /\ tasks' = Append(tasks, Task("uploadMedia", "api", 0, "fetchAPI",
                                   [RetryIdle EXCEPT !.pc = "call", !.calls = 1],
                                   file, Null))
    /\ UNCHANGED mediaFrame

\* ... and that fetch settles
UploadFetchSettles(i) ==
    /\ variant = "media"
    /\ i \in DOMAIN tasks
    /\ tasks[i].pc = "fetchAPI"
    /\ \E resp \in MediaResponses(tasks[i].was) :
          LET out == fetchAPI(resp)
          IN  tasks' = [tasks EXCEPT
                          ![i].pc = "done",
                          ![i].r.pc = IF out.threw THEN "rejected" ELSE "resolved",
                          ![i].r.error = out.error,
                          ![i].r.value = out.value]
    /\ UNCHANGED mediaFrame

\* api.publishDirect(content, file): FormData, then withRetry issues the
\* first fetch of /publish-direct
CallPublishDirectFile(file) ==
    /\ variant = "media"
    /\ Len(tasks) < MaxMediaCalls
    /\ tasks' = Append(tasks, Task("publishDirect", "api", 0, "withRetry", publishDirect,
                                   file, Null))
    /\ UNCHANGED mediaFrame

\* one round of withRetry inside publishDirect moved it to r
DirectStep(i, r) ==
    tasks' = [tasks EXCEPT ![i].r = r,
                           ![i].pc = IF RetrySettled(r) THEN "done" ELSE "withRetry"]

DirectFetchSettles(i) ==
    /\ variant = "media"
    /\ i \in DOMAIN tasks
    /\ tasks[i].pc = "withRetry" /\ tasks[i].r.pc = "call"
    /\ \E resp \in MediaResponses(tasks[i].was) :
          DirectStep(i, FnSettles(tasks[i].r, fetchAPI(resp)))
    /\ UNCHANGED mediaFrame

DirectTimerFires(i) ==
    /\ variant = "media"
    /\ i \in DOMAIN tasks
    /\ tasks[i].pc = "withRetry" /\ tasks[i].r.pc = "wait"
    /\ DirectStep(i, TimerFires(tasks[i].r))
    /\ UNCHANGED mediaFrame

NextMedia ==
    \/ \E file \in MediaFiles : CallUploadMedia(file)
    \/ \E i \in 1..MaxMediaCalls : UploadFetchSettles(i)
    \/ \E file \in MediaFiles : CallPublishDirectFile(file)
    \/ \E i \in 1..MaxMediaCalls : DirectFetchSettles(i)
    \/ \E i \in 1..MaxMediaCalls : DirectTimerFires(i)

SpecMedia == InitMedia /\ [][NextMedia]_vars

---------------------------------------------------------------------------
(* Claims about the retry wrapper, checked under SpecRetry *)

AllThrew(outs) == \A i \in 1..Len(outs) : outs[i].threw

ClientSideStatus(status) == status >= 400 /\ status <= 499

\* C3 (the claim as stated): an invocation of the operation that fails with a
\* client-side rejection (status 4xx) is the last one: no wait and no further
\* invocation follows it.
C3_NoRetryOfClientRejection ==
    \A i \in 1..Len(rt.outs) :
        rt.outs[i].threw /\ ClientSideStatus(rt.outs[i].status)
            => rt.calls = i /\ rt.pc = "rejected"

\* C7: fn is invoked at most maxRetries times (3 with the defaults), and when
\* all maxRetries invocations threw the call is rejected with the error of
\* the last of them.
C7_AtMostMaxAttemptsLastError ==
    /\ rt.calls <= rt.maxRetries
    /\ Len(rt.outs) <= rt.calls
    /\ rt.caller = "defaults" => rt.calls <= 3
    /\ rt.maxRetries > 0 /\ Len(rt.outs) = rt.maxRetries /\ AllThrew(rt.outs)
          => rt.pc = "rejected" /\ rt.error = rt.outs[Len(rt.outs)].error

C7_Witness ==
    /\ rt.pc = "rejected" /\ rt.maxRetries = 3 /\ rt.calls = 3
    /\ Len(rt.outs) = 3
    /\ rt.outs[1].error # rt.outs[3].error
    /\ rt.outs[2].error # rt.outs[3].error

FailsTwiceThenSucceeds(outs) ==
    Len(outs) = 3 /\ outs[1].threw /\ outs[2].threw /\ ~outs[3].threw

\* C8: with maxRetries = 3 and an operation that throws twice and then
\* returns, the call resolves with what the operation returned, the operation
\* ran exactly 3 times, and the second wait is at least twice the first.
C8_FailTwiceThenSucceed ==
    rt.maxRetries = 3 /\ FailsTwiceThenSucceeds(rt.outs)
        => /\ rt.pc = "resolved"
           /\ rt.value = rt.outs[3].value
           /\ rt.calls = 3
           /\ Len(rt.waits) = 2
           /\ rt.waits[2] >= 2 * rt.waits[1]

C8_Witness ==
    /\ rt.maxRetries = 3 /\ FailsTwiceThenSucceeds(rt.outs)
    /\ rt.delayMs > 0
    /\ rt.pc = "resolved" /\ rt.value.success

RECURSIVE Pow2(_)
Pow2(k) == IF k = 0 THEN 1 ELSE 2 * Pow2(k - 1)

Min(a, b) == IF a < b THEN a ELSE b

\* C9: the wait after the failure of attempt k (0-based) is delayMs * 2^k,
\* there is one wait per failed attempt that is not the last allowed one and
\* none before the first attempt; api.publishPost and api.publishDirect make at
\* most 3 attempts, the second after 2000 ms and the third after 4000 ms.
C9_ExponentialBackoff ==
    /\ \A k \in 0..(Len(rt.waits) - 1) : rt.waits[k + 1] = rt.delayMs * Pow2(k)
    /\ rt.maxRetries > 0 =>
          Len(rt.waits) = Min(Len(SelectSeq(rt.outs, LAMBDA o : o.threw)),
                              rt.maxRetries - 1)
    /\ rt.pc = "call" => rt.calls = Len(rt.waits) + 1
    /\ rt.caller \in {"publishPost", "publishDirect"} =>
          /\ rt.calls <= 3
          /\ rt.calls = 1 /\ rt.pc = "call" => rt.waits = <<>>
          /\ rt.calls = 2 /\ rt.pc = "call" => rt.waits = <<2000>>
          /\ rt.calls = 3 /\ rt.pc = "call" => rt.waits = <<2000, 4000>>

C9_Witness ==
    /\ rt.caller = "publishPost" /\ rt.pc = "call" /\ rt.calls = 3
    /\ rt.waits = <<2000, 4000>>

---------------------------------------------------------------------------
(* Claims about publishing, checked under Spec (the Posts page over the     *)
(* real service) and SpecMock (the mock service)                            *)

PublishTasks == {i \in DOMAIN tasks : tasks[i].kind = "publish"}

\* inside api.publishPost: called and not settled
Publishing(i) == tasks[i].kind = "publish" /\ tasks[i].pc \in {"publishPost", "delay"}

AllPosts == {posts[i] : i \in DOMAIN posts} \cup {MOCK_POSTS[i] : i \in DOMAIN MOCK_POSTS}

\* C1 (the claim as stated): of two handlePublish calls for the same post id,
\* the later one is never inside api.publishPost, making network attempts,
\* while the earlier one is still inside it.
C1_OnePublishInFlightPerId ==
    \A i \in PublishTasks, j \in PublishTasks :
        /\ i < j
        /\ tasks[i].via = "page" /\ tasks[j].via = "page"
        /\ tasks[i].id = tasks[j].id
        /\ Publishing(i)
        => ~(Publishing(j) /\ tasks[j].r.calls > 0)

\* C2 (the claim as stated): a publish called on a post whose status is
\* posted settles as a rejection with InvalidTransition.
C2_PublishOnPostedIsRejected ==
    \A i \in PublishTasks :
        tasks[i].was = "posted" /\ tasks[i].pc = "done"
            => tasks[i].r.pc = "rejected" /\ tasks[i].r.error.name = "InvalidTransition"

\* C4 (the claim as stated): every post of the mock store and of the page's
\* list has posted_time set exactly when its status is posted.
C4_PostedTimeIffPosted ==
    \A p \in AllPosts : (p.posted_time # Undefined) <=> (p.status = "posted")

\* C5 (the claim as stated): every post of the mock store and of the page's
\* list has a non-empty error_message exactly when its status is failed.
C5_ErrorMessageIffFailed ==
    \A p \in AllPosts :
        (p.error_message # Undefined /\ p.error_message # "") <=> (p.status = "failed")

\* C6 (the claim as stated): a publish called after the health check has
\* reported the backend unreachable makes no network attempt.
C6_NoAttemptWhenUnreachable ==
    \A i \in PublishTasks :
        tasks[i].gate = Some(FALSE) => tasks[i].r.calls = 0

\* C10 (the claim as stated): the step in which a handlePublish of a draft,
\* scheduled or failed post gets a successful result leaves that post in the
\* page's list with status posted, posted_time the time of the step, no
\* error_message, and tweet_url the url of the result when it has one.
C10_SuccessUpdatesPost ==
    [][\A i \in PublishTasks :
          /\ tasks[i].via = "page" /\ tasks[i].pc = "publishPost"
          /\ tasks'[i].pc = "done" /\ tasks'[i].r.value.success
          => \A k \in DOMAIN posts :
                posts[k].id = tasks[i].id
                /\ posts[k].status \in {"draft", "scheduled", "failed"}
                => /\ posts'[k].status = "posted"
                   /\ posts'[k].posted_time = toISOString(now)
                   /\ posts'[k].error_message = Undefined
                   /\ tasks'[i].r.value.url # Undefined
                        => posts'[k].tweet_url = tasks'[i].r.value.url]_vars

---------------------------------------------------------------------------
(* Claims about failed publishes, status changes and the store *)

NonEmpty(text) == text # Undefined /\ text # ""

\* C11 (the claim as stated): the step that ends a handlePublish whose
\* api.publishPost was rejected (which it is only after an attempt) leaves
\* that post in the page's list with status failed and a non-empty
\* error_message, and with the posted_time it had.
C11_FailedPublishIsRecorded ==
    [][\A i \in PublishTasks :
          /\ tasks[i].via = "page" /\ tasks[i].pc # "done"
          /\ tasks'[i].pc = "done"
          /\ tasks'[i].r.pc = "rejected"
          => \A k \in DOMAIN posts :
                posts[k].id = tasks[i].id
                => /\ k \in DOMAIN posts'
                   /\ posts'[k].id = tasks[i].id
                   /\ posts'[k].status = "failed"
                   /\ NonEmpty(posts'[k].error_message)
                   /\ posts'[k].posted_time = posts[k].posted_time]_vars

\* the status changes the lifecycle allows
StatusEdges ==
    { <<"draft", "scheduled">>, <<"draft", "posted">>, <<"draft", "failed">>,
      <<"scheduled", "posted">>, <<"scheduled", "failed">>, <<"failed", "posted">> }

\* the same post before and after a step: ids can repeat, creation times
\* of created posts cannot
SamePost(p, q) == p.id = q.id /\ p.created_at = q.created_at

\* C12 (the claim as stated): whenever a post of the store has another
\* status after a step than before it, the change is one of the six edges;
\* in particular no post leaves posted.
C12_OnlyLifecycleEdges ==
    [][\A a \in DOMAIN MOCK_POSTS, b \in DOMAIN MOCK_POSTS' :
          SamePost(MOCK_POSTS[a], MOCK_POSTS'[b])
          /\ MOCK_POSTS[a].status # MOCK_POSTS'[b].status
          => <<MOCK_POSTS[a].status, MOCK_POSTS'[b].status>> \in StatusEdges]_vars

\* task i settles in this step, having been a call of this kind
Settles(i, kind) ==
    tasks[i].kind = kind /\ tasks[i].pc = "delay" /\ tasks'[i].pc = "done"

RejectedWith(r, name) == r.pc = "rejected" /\ r.error.name = name

\* C13 (the claim as stated): a publishPost(id) that finds no post with this
\* id in the store is rejected with NotFound and changes no post.
C13_PublishUnknownIdNotFound ==
    [][\A i \in DOMAIN tasks :
          Settles(i, "publish") /\ FindIndex(MOCK_POSTS, tasks[i].id) = 0
          => /\ RejectedWith(tasks'[i].r, "NotFound")
             /\ MOCK_POSTS' = MOCK_POSTS]_vars

\* a scheduled time was given to createPost
TimeGiven(gate) == ~(gate \subseteq {Undefined, ""})

\* C14: the step in which a createPost resolves puts one new post in front of
\* the store, scheduled when a scheduled time was given and draft when not,
\* with no posted_time and no error_message, and leaves the others as they were.
C14_CreateDraftOrScheduled ==
    [][\A i \in DOMAIN tasks :
          Settles(i, "create") /\ tasks'[i].r.pc = "resolved"
          => /\ Len(MOCK_POSTS') = Len(MOCK_POSTS) + 1
             /\ SubSeq(MOCK_POSTS', 2, Len(MOCK_POSTS')) = MOCK_POSTS
             /\ MOCK_POSTS'[1].id = tasks'[i].id
             /\ MOCK_POSTS'[1].status =
                   IF TimeGiven(tasks[i].gate) THEN "scheduled" ELSE "draft"
             /\ MOCK_POSTS'[1].scheduled_time \in tasks[i].gate
             /\ MOCK_POSTS'[1].posted_time = Undefined
             /\ MOCK_POSTS'[1].error_message = Undefined]_vars

\* a createPost with a scheduled time and one without have resolved, and
\* the posts they made are at the front of the store
C14_Witness ==
    /\ Len(tasks) = 2
    /\ \A i \in {1, 2} : tasks[i].kind = "create" /\ tasks[i].pc = "done"
    /\ TimeGiven(tasks[1].gate) /\ ~TimeGiven(tasks[2].gate)
    /\ Len(MOCK_POSTS) = Len(InitialPosts) + 2
    /\ MOCK_POSTS[1].status = "draft" /\ MOCK_POSTS[2].status = "scheduled"

\* C15 (the claim as stated): a createPost called with no content or with
\* empty content is rejected with ValidationError and adds no post.
C15_EmptyContentRejected ==
    [][\A i \in DOMAIN tasks :
          Settles(i, "create") /\ tasks[i].was \in {Undefined, ""}
          => /\ RejectedWith(tasks'[i].r, "ValidationError")
             /\ MOCK_POSTS' = MOCK_POSTS]_vars

\* C16 (the claim as stated): a deletePost(id) that finds no post with this
\* id in the store is rejected with NotFound and leaves the store as it was.
C16_DeleteUnknownIdNotFound ==
    [][\A i \in DOMAIN tasks :
          Settles(i, "delete") /\ FindIndex(MOCK_POSTS, tasks[i].id) = 0
          => /\ RejectedWith(tasks'[i].r, "NotFound")
             /\ MOCK_POSTS' = MOCK_POSTS]_vars

\* the ids handed out so far: those of the fixture and those of the posts
\* created since, whether or not the post is still in the store
IdsHandedOut ==
    PostIds \cup {tasks[j].id : j \in {k \in DOMAIN tasks :
                                         tasks[k].kind = "create" /\ tasks[k].pc = "done"}}

\* C17 (the claim as stated): no two posts of the store have the same id, and
\* the id a createPost gives its post was never handed out before.
C17_IdsUniqueNeverReused ==
    [][/\ \A a \in DOMAIN MOCK_POSTS', b \in DOMAIN MOCK_POSTS' :
             a # b => MOCK_POSTS'[a].id # MOCK_POSTS'[b].id
       /\ \A i \in DOMAIN tasks :
             Settles(i, "create") => tasks'[i].id \notin IdsHandedOut]_vars

---------------------------------------------------------------------------
(* Claims about the health check, checked under SpecService *)

HealthChecks == {i \in DOMAIN tasks : tasks[i].kind = "checkBackendHealth"}
ChecksDone == {i \in HealthChecks : tasks[i].pc = "done"}

\* GET /health was answered with a 2xx status before the timeout
Healthy(t) == t.was = "response" /\ t.id >= 200 /\ t.id <= 299

\* C18: every checkBackendHealth() that has settled has resolved, never
\* rejected; it returned true when GET /health was answered with a 2xx status
\* in time, and false after any other status, a network failure or the timeout.
C18_HealthCheckNeverThrows ==
    \A i \in ChecksDone :
        /\ tasks[i].r.pc = "resolved"
        /\ tasks[i].gate = Some(Healthy(tasks[i]))

\* one check was answered 2xx and returned true, another one timed out and
\* returned false
C18_Witness ==
    \E i \in ChecksDone, j \in ChecksDone :
        /\ Healthy(tasks[i]) /\ tasks[i].gate = Some(TRUE)
        /\ tasks[j].was = "timeout" /\ tasks[j].gate = Some(FALSE)

\* checkBackendHealth() call i settles in this step
CheckCompletes(i) == tasks[i].pc = "health" /\ tasks'[i].pc = "done"

\* C19: backendAvailable is null exactly until a first check has completed;
\* a step changes it only when a check completes in it (none of publishPost
\* with its retries, createPost, deletePost, getPosts does), and the step in
\* which a check completes leaves in it the boolean the check returned.
C19_OnlyCheckSetsBackendAvailable ==
    /\ [](backendAvailable = Null <=> ChecksDone = {})
    /\ [][/\ backendAvailable' # backendAvailable
             => \E i \in HealthChecks : CheckCompletes(i)
          /\ \A i \in HealthChecks :
                CheckCompletes(i) => backendAvailable' = tasks'[i].gate]_vars

\* one check returned true and another, on a network failure, false; a
\* publishPost has run its three attempts; the value is that of a check
C19_Witness ==
    /\ Len(tasks) = 2
    /\ tasks[1].kind = "checkBackendHealth" /\ tasks[1].gate = Some(TRUE)
    /\ tasks[2].kind = "checkBackendHealth" /\ tasks[2].gate = Some(FALSE)
    /\ tasks[2].was = "reject"
    /\ rt.pc = "rejected" /\ rt.calls = PublishMaxRetries
    /\ backendAvailable = Some(FALSE)

---------------------------------------------------------------------------
(* Termination of publishPost, checked under SpecRetryFair *)

\* C20: api.publishPost never makes more than its three attempts, and once
\* called it settles, resolved or rejected; nothing a caller does is needed
\* for it to go on.
C20_PublishSettles ==
    /\ [](rt.caller = "publishPost" => rt.calls <= PublishMaxRetries)
    /\ (rt.caller = "publishPost" /\ rt.pc \in {"call", "wait"})
          ~> (rt.caller = "publishPost" /\ RetrySettled(rt))

\* publishPost is in its second backoff wait, two attempts having failed
C20_Witness ==
    /\ rt.caller = "publishPost" /\ rt.pc = "wait"
    /\ rt.calls = 2 /\ Len(rt.waits) = 2

---------------------------------------------------------------------------
(* The end of a withRetry call, checked under SpecRetry *)

\* C29: only the last invocation of fn can have returned, and the call then
\* resolves at once; a call that is rejected has made exactly maxRetries
\* invocations, all of which threw.  A backoff wait is only ever in progress
\* with an invocation still to come, and a settled call that invoked fn has
\* waited once less than it invoked fn.
C29_StopsAtFirstSuccess ==
    /\ \A i \in 1..(Len(rt.outs) - 1) : rt.outs[i].threw
    /\ \A i \in 1..Len(rt.outs) :
          ~rt.outs[i].threw => rt.pc = "resolved" /\ rt.calls = i
    /\ rt.pc = "resolved" => ~rt.outs[Len(rt.outs)].threw
    /\ rt.pc = "rejected"
          => rt.calls = rt.maxRetries /\ Len(rt.outs) = rt.calls /\ AllThrew(rt.outs)
    /\ rt.pc = "wait" => rt.calls < rt.maxRetries /\ Len(rt.waits) = rt.calls
    /\ RetrySettled(rt) /\ rt.calls >= 1 => Len(rt.waits) = rt.calls - 1
    /\ RetrySettled(rt) /\ rt.calls = 0 => rt.waits = <<>>

\* a call with maxRetries = 4 whose second invocation returned, and was the last
C29_Witness ==
    /\ rt.maxRetries = 4 /\ rt.pc = "resolved"
    /\ rt.calls = 2 /\ Len(rt.waits) = 1
    /\ rt.outs[1].threw /\ ~rt.outs[2].threw

---------------------------------------------------------------------------
(* The messages of the transport, checked under SpecTransport *)

\* C24 (the claim as stated): a fetchAPI call whose response has a status
\* outside 2xx is rejected with the message of the body when the body parses
\* and carries one, and with the generic message of the status code when
\* not; a call whose response has a 2xx status is not rejected.
C24_TransportErrorMessages ==
    \A i \in DOMAIN tasks :
        tasks[i].kind = "fetchAPI" /\ tasks[i].pc = "done"
        /\ tasks[i].was.kind = "response"
        => LET resp == tasks[i].was
           IN  IF ResponseOk(resp)
               THEN tasks[i].r.pc = "resolved"
               ELSE /\ tasks[i].r.pc = "rejected"
                    /\ tasks[i].r.error =
                          IF resp.parses /\ NonEmpty(resp.detail)
                          THEN DetailError(resp.detail)
                          ELSE ApiError(resp.status)

---------------------------------------------------------------------------
(* Claims about media, checked under SpecMedia *)

MediaTasks == {i \in DOMAIN tasks : tasks[i].kind \in {"uploadMedia", "publishDirect"}}

\* the request of this call was answered, and the call has settled
Answered(t) == t.pc = "done" /\ t.r.error # TypeErrorFailedToFetch

C23_NoRequestForInvalidFile ==
    \A i \in MediaTasks :
        StageError(tasks[i].was) # "" => tasks[i].r.calls = 0

---------------------------------------------------------------------------
(* Claims about the Posts page, checked under SpecPage *)

PagePublishes == {i \in PublishTasks : tasks[i].via = "page"}

\* a handlePublish that was started and has not run to its end
InFlight(i) == tasks[i].pc # "done"

\* C21: the step in which a handlePublish ends, however api.publishPost came
\* out, leaves publishingId null; and publishingId names a post only while a
\* handlePublish of that post is running, so an ended publish never keeps the
\* button of its post disabled.
C21_MarkerReleased ==
    /\ [](\A id \in PostIds :
            publishingId = Some(id)
            => \E i \in PagePublishes : tasks[i].id = id /\ InFlight(i))
    /\ [][\A i \in PagePublishes :
             InFlight(i) /\ ~InFlight(i)' => publishingId' = Null]_vars

\* a publish of post 2 was rejected and has ended, and post 2 is being
\* published again
C21_Witness ==
    /\ Len(tasks) = 3
    /\ tasks[2].kind = "publish" /\ tasks[2].id = 2 /\ ~InFlight(2)
    /\ tasks[2].r.pc = "rejected"
    /\ tasks[3].kind = "publish" /\ tasks[3].id = 2 /\ InFlight(3)
    /\ publishingId = Some(2)

\* C26 (the claim as stated): while a handlePublish of a post is running,
\* publishingId is the id of that post.
C26_PublishingIdNamesEveryPublish ==
    \A i \in PagePublishes : InFlight(i) => publishingId = Some(tasks[i].id)

\* api.publishPost of handlePublish i gets, in this step, a 2xx answer that
\* says success = false
GetsSuccessFalse(i) ==
    /\ tasks[i].pc = "publishPost" /\ tasks[i].r.pc = "call"
    /\ tasks'[i].r.pc = "resolved" /\ ~tasks'[i].r.value.success

\* C27: the step in which a handlePublish gets a 2xx answer with
\* success = false ends its api.publishPost (no wait, no further attempt),
\* leaves the page's list as it was, and starts fetchPosts; and a step marks a
\* post of the list posted for a handlePublish only when its answer said
\* success = true.
C27_SuccessFalseIsNotPosted ==
    [][\A i \in PagePublishes :
          /\ GetsSuccessFalse(i)
             => /\ tasks'[i].pc = "health"
                /\ loading'
                /\ posts' = posts
          /\ tasks[i].pc = "publishPost" /\ tasks'[i].pc = "done"
             => tasks'[i].r.pc = "resolved" /\ tasks'[i].r.value.success]_vars

\* a handlePublish of post 2 got success = false and is re-fetching; the page
\* still shows post 2 as a draft
C27_Witness ==
    \E i \in PagePublishes :
        /\ tasks[i].id = 2 /\ tasks[i].pc = "health"
        /\ tasks[i].r.pc = "resolved" /\ ~tasks[i].r.value.success
        /\ loading
        /\ StatusOf(posts, 2) = "draft"

PageDeletes == {i \in DOMAIN tasks : tasks[i].kind = "delete" /\ tasks[i].via = "page"}

\* C25: the step in which the api.deletePost of a handleDelete resolves takes
\* the post with that id, whatever its status, out of the page's list and
\* leaves every other post of the list as it was, in the same order; the step
\* in which it is rejected leaves the list as it was.
C25_DeleteRemovesExactlyThatPost ==
    [][\A i \in PageDeletes :
          tasks[i].pc = "deletePost" /\ tasks'[i].pc = "done"
          => IF tasks'[i].r.pc = "resolved"
             THEN /\ tasks[i].id \notin Ids(posts')
                  /\ Len(posts') = Cardinality({k \in DOMAIN posts :
                                                  posts[k].id # tasks[i].id})
                  /\ \A k \in DOMAIN posts :
                        posts[k].id # tasks[i].id
                        => \E m \in DOMAIN posts' :
                              /\ posts'[m] = posts[k]
                              /\ m = Cardinality({n \in 1..k :
                                                    posts[n].id # tasks[i].id})
             ELSE posts' = posts]_vars

\* a posted post and a draft were deleted; the two other posts are left
C25_Witness ==
    /\ \E i \in PageDeletes, j \in PageDeletes :
          /\ tasks[i].was = "posted" /\ tasks[i].r.pc = "resolved"
          /\ tasks[j].was = "draft" /\ tasks[j].r.pc = "resolved"
    /\ Ids(posts) = {3, 4}

\* handleDelete j was clicked after handlePublish i, for the same post, and
\* its api.deletePost has resolved
RemovedDuring(i, j) ==
    /\ j > i
    /\ tasks[j].id = tasks[i].id
    /\ tasks[j].pc = "done" /\ tasks[j].r.pc = "resolved"

\* C28: when a handlePublish ends whose post was removed by a handleDelete
\* while it was in flight, the post is in the page's list no more, and every
\* other post of the list is as it was before that step.
C28_PublishNeverReAddsRemovedPost ==
    [][\A i \in PagePublishes, j \in PageDeletes :
          InFlight(i) /\ RemovedDuring(i, j) /\ ~InFlight(i)'
          => /\ tasks[i].id \notin Ids(posts')
             /\ \A k \in DOMAIN posts :
                   posts[k].id # tasks[i].id => \E m \in DOMAIN posts' : posts'[m] = posts[k]]_vars

---------------------------------------------------------------------------
(* Publishing in either place: the mock store with its calls, or the Posts *)
(* page against the backend.                                               *)

InitStoreOrPage == InitMock \/ InitPage

NextStoreOrPage == NextMock \/ NextPage

SpecStoreOrPage == InitStoreOrPage /\ [][NextStoreOrPage]_vars

\* Between the lists old and new only posts with this id differ, and those
\* kept their id, content and created_at.
OnlyPostChanged(old, new, id) ==
    /\ Len(new) = Len(old)
    /\ \A k \in DOMAIN old :
          IF old[k].id # id
          THEN new[k] = old[k]
          ELSE /\ new[k].id = old[k].id
               /\ new[k].content = old[k].content
               /\ new[k].created_at = old[k].created_at

\* C30: the step in which a mock publishPost(X) runs, whether it posts or
\* fails, and the step in which a handlePublish(X) of the page ends with a
\* success, leave every post with another id exactly as it was and leave the
\* id, content and created_at of post X as they were.
C30_PublishChangesOnlyThatPost ==
    [][/\ \A i \in DOMAIN tasks :
             variant = "mock" /\ Settles(i, "publish")
             => OnlyPostChanged(MOCK_POSTS, MOCK_POSTS', tasks[i].id)
       /\ \A i \in PagePublishes :
             /\ tasks[i].pc = "publishPost" /\ tasks'[i].pc = "done"
             /\ tasks'[i].r.pc = "resolved" /\ tasks'[i].r.value.success
             => OnlyPostChanged(posts, posts', tasks[i].id)]_vars

\* the page has published post 2 with success and shows it as posted, next
\* to a draft or failed post it did not publish
C30_Witness ==
    /\ variant = "page"
    /\ \E i \in PagePublishes :
          /\ tasks[i].id = 2 /\ tasks[i].pc = "done"
          /\ tasks[i].r.pc = "resolved" /\ tasks[i].r.value.success
    /\ StatusOf(posts, 2) = "posted"
    /\ \E k \in DOMAIN posts : posts[k].id # 2 /\ posts[k].status \in {"draft", "failed"}

====
